---- MODULE Spec2Model ----
(***************************************************************************)
(* MapdCon: the connector of grail/mapd-connector.                         *)
(*                                                                         *)
(* The repository carries two copies of the class:                         *)
(*   "legacy" : src/unnamed/part_000      (synchronous connect, adaptive   *)
(*              and round-robin balancing, queue-time accounting)          *)
(*   "es6"    : src/src/mapd-con-es6.js   (callback based connect and      *)
(*              disconnect, pingServers, conId fixed to 0)                 *)
(* The variable impl says which copy an instance runs; it never changes.   *)
(*                                                                         *)
(* JavaScript values are encoded as follows:                               *)
(*   null client/session   Null      = <<0>>  (array elements are >= 1)    *)
(*   null queue times      NullTimes = <<-1000>> (no time gets that low)   *)
(*   NaN                   NaN   = -2     (only as a connection id)        *)
(*   NaN in a queue slot   NaNTime = -2000 (also stands for an array hole) *)
(*   indexOf miss          -1                                              *)
(*   array index i (0-based) is position i + 1 of the sequence             *)
(*   key missing in queryTimes   Absent = -1                               *)
(***************************************************************************)
EXTENDS Integers, Sequences, FiniteSets, TLC

\* ---------------------------------------------------------------- bounds
NumEndpoints == 2     \* endpoints named 1..NumEndpoints in host/port arrays
MaxNonce == 3         \* dispatch calls per instance
MaxInflight == 3      \* asynchronous requests awaiting their reply
MaxQueueTime == 100   \* largest pending-load value a queue slot may reach
MaxUnderflow == 1     \* how far below zero _numConnections may be driven
MaxPendingDisc == 2   \* disconnect replies outstanding at once
MaxProbes == 8        \* status probes outstanding at once
MaxCols == 2          \* fields of a result block
MaxRows == 2          \* rows of a result block
MaxElems == 1         \* elements of an array-typed cell

\* ---------------------------------------------------- program constants
DEFAULT_QUERY_TIME == 50
NUM_PINGS_PER_SERVER == 4

Null == <<0>>
NullTimes == <<-1000>>
NaNTime == -2000
NaN == -2
Absent == -1

Impls == {"legacy", "es6"}
\* no connect is being followed (0 names no endpoint)
Unknown == {0}
\* the connection parameters a connect call finds: well formed; a field of
\* the first endpoint empty; a field of a later endpoint empty; arrays of
\* different lengths; arrays of length zero
Configs == {"ok", "emptyFirst", "emptyLater", "mismatch", "zeroLength"}
Endpoints == 1..NumEndpoints
Strategies == {"adaptive", "roundrobin"}
\* options.queryId
QueryIds == {"q1"}
\* result.execution_time_ms values a server reports
ExecTimes == {0, 30}
\* round-trip times of a status probe, now - startTime
PingTimes == {4, 8}

IsNull(a) == a = Null

\* the session id the server at endpoint h hands out
SessionOf(h) == NumEndpoints + h

\* Array.prototype.splice(i, 1) with a 0-based index i
Splice(s, i) ==
  IF i < 0 \/ i >= Len(s) THEN s
  ELSE [k \in 1..(Len(s) - 1) |-> IF k <= i THEN s[k] ELSE s[k + 1]]

Zeros(n) == [k \in 1..n |-> 0]

SeqMin(s) == CHOOSE m \in {s[k] : k \in 1..Len(s)} :
               \A k \in 1..Len(s) : m <= s[k]

HasNaN(s) == \E k \in 1..Len(s) : s[k] = NaNTime

\* the mutation of IndexOfMin: the last slot holding the minimum
IndexOfMinLast(s) ==
  IF Len(s) = 0 \/ HasNaN(s) THEN -1
  ELSE (CHOOSE k \in 1..Len(s) :
          /\ s[k] = SeqMin(s)
          /\ \A j \in (k + 1)..Len(s) : s[j] # SeqMin(s)) - 1

\* serverQueueTimes.indexOf(Math.min.apply(Math, serverQueueTimes)):
\* Math.min() of no arguments is Infinity and Math.min over a NaN or a hole
\* is NaN, neither of which indexOf finds
IndexOfMin(s) ==
  IF Len(s) = 0 \/ HasNaN(s) THEN -1
  ELSE (CHOOSE k \in 1..Len(s) :
          /\ s[k] = SeqMin(s)
          /\ \A j \in 1..(k - 1) : s[j] # SeqMin(s)) - 1

\* the mutation of NonceMod: the previous nonce
NonceModPrev(nonce, n) ==
  IF n = 0 THEN NaN
  ELSE (IF nonce = 0 THEN 0 ELSE nonce - 1) % (IF n < 0 THEN -n ELSE n)

\* curNonce % this._numConnections: JavaScript's remainder takes the sign
\* of the dividend, and x % 0 is NaN
NonceMod(nonce, n) ==
  IF n = 0 THEN NaN
  ELSE nonce % (IF n < 0 THEN -n ELSE n)

VARIABLES
  impl,              \* which copy of MapdCon the instance runs
  client,            \* this._client: Null or the list of endpoints' clients
  sessionId,         \* this._sessionId: Null or the list of session ids
  numConnections,    \* this._numConnections
  nonce,             \* this._nonce
  balanceStrategy,   \* this._balanceStrategy
  lastRenderCon,     \* this._lastRenderCon
  queryTimes,        \* this.queryTimes: query id -> last execution time
  serverQueueTimes,  \* this.serverQueueTimes
  inflight,          \* asynchronous RPCs whose reply is outstanding
  calls,             \* history: number of dispatch invocations so far
  ret,               \* history: how the latest dispatch call ended
  emptied,           \* history: removeConnection emptied the pool last
  pendingConn,       \* es6: endpoint -> connect replies outstanding
  pendingDisc,       \* es6: disconnect replies outstanding
  ping,              \* es6: serverPingTimes, pingCount and the status
                     \* probes outstanding per connection id
  reached,           \* history: endpoints whose connect RPC succeeded since
                     \* the latest connect call; Unknown once anything else
                     \* has touched the pool
  opts,              \* the options a call of query is given, and what the
                     \* call reads from them
  norm               \* a logical table, and what processResults returns
                     \* for its columnar and for its row-oriented block

vars == <<impl, client, sessionId, numConnections, nonce, balanceStrategy,
          lastRenderCon, queryTimes, serverQueueTimes, inflight, calls, ret,
          emptied, pendingConn, pendingDisc, ping, reached, norm, opts>>

NoRet == [kind |-> "none", msg |-> "none"]
NoDelivery == [kind |-> "none", nonce |-> -1]

\* no result block received
Idle == [input |-> [fields |-> <<>>, table |-> <<>>,
                    eliminateNullRows |-> FALSE],
         out |-> <<>>]

\* the fields of MapdCon after its constructor
Constructed ==
  /\ impl \in Impls
  /\ client = Null
  /\ sessionId = Null
  /\ numConnections = 0
  /\ nonce = 0
  /\ balanceStrategy = "adaptive"
  /\ lastRenderCon = 0
  /\ queryTimes = [q \in QueryIds |-> Absent]
  /\ serverQueueTimes = IF impl = "legacy" THEN <<>> ELSE NullTimes
  /\ inflight = {}
  /\ calls = 0
  /\ ret = NoRet
  /\ emptied = FALSE
  /\ pendingConn = [h \in Endpoints |-> 0]
  /\ pendingDisc = 0
  /\ ping = [times |-> NullTimes, count |-> 0,
             pending |-> [c \in 1..NumEndpoints |-> 0]]
  /\ reached = Unknown

\* no call of query parsed yet: no options object
NoOptions ==
  [given |-> FALSE, columnarResults |-> "absent",
   eliminateNullRows |-> "absent", renderSpec |-> "absent",
   queryId |-> "absent"]
Unparsed == [input |-> NoOptions, out |-> <<>>]

Init == Constructed /\ norm = Idle /\ opts = Unparsed

\* the endpoints of set S in the order of the host array
RECURSIVE InOrder(_, _)
InOrder(S, h) ==
  IF h > NumEndpoints THEN <<>>
  ELSE (IF h \in S THEN <<h>> ELSE <<>>) \o InOrder(S, h + 1)

Sessions(cl) == [k \in 1..Len(cl) |-> SessionOf(cl[k])]

Thrown(m) == [kind |-> "throw", msg |-> m]
Returned(k) == [kind |-> k, msg |-> "none"]

\* ret remembers the end of dispatch calls only: a call or reply that is no
\* dispatch, ending as r, clears it
Quiet(r) ==
  /\ ret' = NoRet
  /\ UNCHANGED calls

\* ------------------------------------------------------------- legacy
\* connect() of part_000 under parameters cfg; reach is the set of
\* endpoints whose client.connect succeeds, discThrows a failing disconnect
\* RPC.  The per-connection fields the call leaves, how it ends, and the
\* endpoints it sent a connect RPC to
ConnectLegacyEnd(cfg, reach, discThrows) ==
  LET n0 == IF IsNull(sessionId) THEN numConnections ELSE 0
      cl == InOrder(reach, 1)
      rejected(m) == [client |-> <<>>, sessionId |-> <<>>,
                      numConnections |-> n0,
                      serverQueueTimes |-> serverQueueTimes,
                      ret |-> Thrown(m), rpcs |-> {}]
  IN IF ~IsNull(sessionId) /\ discThrows /\ Len(client) > 0
     THEN [client |-> client, sessionId |-> sessionId,
           numConnections |-> numConnections,
           serverQueueTimes |-> serverQueueTimes,
           ret |-> Thrown("NetworkError"), rpcs |-> {}]
     ELSE IF cfg = "zeroLength"
     THEN rejected("Must have at least one server to connect to.")
     ELSE IF cfg = "mismatch"
     THEN rejected("Array connection parameters must be of equal length.")
     ELSE IF Len(cl) < 1
     THEN [client |-> Null, sessionId |-> Null, numConnections |-> 0,
           serverQueueTimes |-> serverQueueTimes,
           ret |-> Thrown("Could not connect to any servers in list."),
           rpcs |-> Endpoints]
     ELSE [client |-> cl, sessionId |-> Sessions(cl),
           numConnections |-> Len(cl),
           serverQueueTimes |-> Zeros(Len(cl)),
           ret |-> Returned("this"), rpcs |-> Endpoints]

\* whether the disconnect RPCs of a call fail: they can only where the
\* instance holds a client to send one to
Faults == IF IsNull(client) \/ Len(client) = 0 THEN {FALSE} ELSE BOOLEAN

\* every way a call of connect() made in the current state can end, with
\* the endpoints that answered its connect RPCs
ConnectLegacyEnds ==
  {LET r == ConnectLegacyEnd(cfg, reach, d)
   IN [end |-> r, reached |-> IF r.rpcs = {} THEN Unknown ELSE reach] :
     cfg \in Configs, reach \in SUBSET Endpoints, d \in Faults}

ConnectLegacy ==
  /\ impl = "legacy"
  /\ \E e \in ConnectLegacyEnds : LET r == e.end IN
       /\ client' = r.client
       /\ sessionId' = r.sessionId
       /\ numConnections' = r.numConnections
       /\ serverQueueTimes' = r.serverQueueTimes
       /\ emptied' = IF r.ret = Thrown("NetworkError") THEN emptied ELSE FALSE
       /\ reached' = e.reached
       /\ Quiet(r.ret)
  /\ UNCHANGED <<impl, norm, opts, ping, nonce, balanceStrategy, lastRenderCon, queryTimes,
                 inflight, pendingConn, pendingDisc>>

\* disconnect() of part_000: the fields it leaves and how it ends
DisconnectLegacyEnd(discThrows) ==
  LET same(r) == [client |-> client, sessionId |-> sessionId,
                  numConnections |-> numConnections,
                  serverQueueTimes |-> serverQueueTimes, ret |-> r]
  IN IF IsNull(sessionId) THEN same(Returned("this"))
     ELSE IF discThrows /\ Len(client) > 0 THEN same(Thrown("NetworkError"))
     ELSE [client |-> Null, sessionId |-> Null, numConnections |-> 0,
           serverQueueTimes |-> serverQueueTimes, ret |-> Returned("this")]

DisconnectLegacy(discThrows) ==
  /\ impl = "legacy"
  /\ LET r == DisconnectLegacyEnd(discThrows) IN
       /\ client' = r.client
       /\ sessionId' = r.sessionId
       /\ numConnections' = r.numConnections
       /\ emptied' = IF r.client = client THEN emptied ELSE FALSE
       /\ Quiet(r.ret)
  /\ reached' = Unknown
  /\ UNCHANGED <<impl, norm, opts, ping, nonce, balanceStrategy, lastRenderCon, queryTimes,
                 serverQueueTimes, inflight, pendingConn, pendingDisc>>

\* ---------------------------------------------------------------- es6
\* disconnect(callback) of mapd-con-es6.js: one disconnect RPC per client,
\* the state is cleared by the reply handlers
DisconnectEs6End ==
  [rpcs |-> IF IsNull(sessionId) THEN 0 ELSE Len(client),
   ret |-> Returned("this")]

DisconnectEs6 ==
  /\ impl = "es6"
  /\ LET r == DisconnectEs6End IN
       /\ pendingDisc + r.rpcs <= MaxPendingDisc
       /\ pendingDisc' = pendingDisc + r.rpcs
       /\ Quiet(r.ret)
  /\ reached' = Unknown
  /\ UNCHANGED <<impl, norm, opts, ping, client, sessionId, numConnections, nonce,
                 balanceStrategy, lastRenderCon, queryTimes,
                 serverQueueTimes, inflight, emptied, pendingConn>>

\* what a callback is handed
Called(m) == [kind |-> "callback", msg |-> m]

\* the reply handler of a disconnect RPC: the fields it leaves
DisconnectReplyEnd(error) ==
  IF error
  THEN [client |-> client, sessionId |-> sessionId,
        numConnections |-> numConnections,
        serverQueueTimes |-> serverQueueTimes, pingTimes |-> ping.times]
  ELSE [client |-> Null, sessionId |-> Null, numConnections |-> 0,
        serverQueueTimes |-> serverQueueTimes, pingTimes |-> NullTimes]

DisconnectReply(error) ==
  /\ impl = "es6"
  /\ pendingDisc > 0
  /\ pendingDisc' = pendingDisc - 1
  /\ LET r == DisconnectReplyEnd(error) IN
       /\ client' = r.client
       /\ sessionId' = r.sessionId
       /\ numConnections' = r.numConnections
       /\ ping' = [ping EXCEPT !.times = r.pingTimes]
  /\ emptied' = IF error THEN emptied ELSE FALSE
  /\ Quiet(Called(IF error THEN "error" ELSE "undefined"))
  /\ UNCHANGED <<impl, norm, opts, nonce, balanceStrategy, lastRenderCon, queryTimes,
                 serverQueueTimes, inflight, pendingConn, reached>>

\* connect(callback) of mapd-con-es6.js under parameters cfg: it disconnects
\* an existing session, empties the lists, checks the parameters (the
\* fields of the first endpoint, then the lengths) and issues one connect
\* RPC per endpoint.  The fields the call leaves, how it ends, and the
\* endpoints it sent a connect RPC to
ConnectEs6End(cfg) ==
  LET disc == IF IsNull(sessionId) THEN pendingDisc
              ELSE pendingDisc + Len(client)
      rejected(m) == [client |-> <<>>, sessionId |-> <<>>,
                      pendingConn |-> pendingConn, pendingDisc |-> disc,
                      ret |-> Called(m), rpcs |-> {}]
  IN IF cfg \in {"emptyFirst", "zeroLength"}
     THEN rejected("Please enter a username.")
     ELSE IF cfg = "mismatch"
     THEN rejected("Array connection parameters must be of equal length.")
     ELSE [client |-> <<>>, sessionId |-> <<>>,
           pendingConn |-> [h \in Endpoints |-> 1], pendingDisc |-> disc,
           ret |-> Returned("this"), rpcs |-> Endpoints]

ConnectEs6(cfg) ==
  /\ impl = "es6"
  /\ \A h \in Endpoints : pendingConn[h] = 0
  /\ LET r == ConnectEs6End(cfg) IN
       /\ r.pendingDisc <= MaxPendingDisc
       /\ client' = r.client
       /\ sessionId' = r.sessionId
       /\ pendingConn' = r.pendingConn
       /\ pendingDisc' = r.pendingDisc
       /\ reached' = IF r.rpcs = {} THEN Unknown ELSE {}
       /\ Quiet(r.ret)
  /\ emptied' = FALSE
  /\ UNCHANGED <<impl, norm, opts, ping, numConnections, nonce, balanceStrategy,
                 lastRenderCon, queryTimes, serverQueueTimes, inflight>>

\* the reply handler of the connect RPC to endpoint h
ConnectReply(h, error) ==
  /\ impl = "es6"
  /\ pendingConn[h] > 0
  /\ pendingConn' = [pendingConn EXCEPT ![h] = @ - 1]
  /\ reached' = IF error \/ reached = Unknown THEN reached
                ELSE reached \cup {h}
  /\ IF error
     THEN /\ Quiet(Called("error"))
          /\ UNCHANGED <<client, sessionId, numConnections>>
     ELSE IF IsNull(client)
     THEN /\ Quiet(Thrown("TypeError"))
          /\ UNCHANGED <<client, sessionId, numConnections>>
     ELSE /\ client' = Append(client, h)
          /\ sessionId' = Append(sessionId, SessionOf(h))
          /\ numConnections' = Len(client) + 1
          /\ Quiet(Called("this"))
  /\ UNCHANGED <<impl, norm, opts, ping, nonce, balanceStrategy, lastRenderCon, queryTimes,
                 serverQueueTimes, inflight, emptied, pendingDisc>>

\* ------------------------------------------------------- both copies
\* the conId of the mutation of RemoveFrom: always the first connection
RemoveFirst(cl, conId) == Splice(cl, 0)

\* the splice of removeConnection on one of the parallel lists
RemoveFrom(cl, conId) == Splice(cl, conId)

\* the guard of removeConnection: this.numConnections is a method in
\* mapd-con-es6.js and undefined in part_000, so conId >= this.numConnections
\* is false for every number
InvalidConId(conId) == conId < 0

\* balanceStrategy(s)
SetBalanceStrategy(s) ==
  /\ s # balanceStrategy
  /\ balanceStrategy' = s
  /\ Quiet(Returned("this"))
  /\ UNCHANGED <<impl, norm, opts, ping, client, sessionId, numConnections, nonce,
                 lastRenderCon, queryTimes, serverQueueTimes, inflight,
                 emptied, pendingConn, pendingDisc, reached>>

\* removeConnection(conId) called on the instance: the per-connection
\* fields it leaves and how the call ends
Removal(conId) ==
  LET same(r) == [client |-> client, sessionId |-> sessionId,
                  numConnections |-> numConnections,
                  serverQueueTimes |-> serverQueueTimes, ret |-> r]
  IN IF InvalidConId(conId) THEN same(Thrown("Remove connection id invalid"))
     ELSE IF IsNull(client) THEN same(Thrown("TypeError"))
     ELSE [client |-> RemoveFrom(client, conId),
           sessionId |-> RemoveFrom(sessionId, conId),
           numConnections |-> numConnections - 1,
           serverQueueTimes |-> serverQueueTimes,
           ret |-> Returned("undefined")]

RemoveConnection(conId) ==
  /\ numConnections > -MaxUnderflow
  /\ LET r == Removal(conId) IN
       /\ client' = r.client
       /\ sessionId' = r.sessionId
       /\ numConnections' = r.numConnections
       /\ emptied' = IF r.ret.kind = "throw" THEN emptied
                     ELSE (Len(client) = 1 /\ conId = 0 /\ numConnections = 1)
       /\ Quiet(r.ret)
  /\ reached' = Unknown
  /\ UNCHANGED <<impl, norm, opts, ping, nonce, balanceStrategy, lastRenderCon, queryTimes,
                 serverQueueTimes, inflight, pendingConn, pendingDisc>>

\* ------------------------------------------------------------ dispatch
ThrowNames == {"NetworkError", "TMapDException", "Error"}

\* what the transport does with a synchronous RPC: a result carrying an
\* execution time, or an exception
SyncOutcomes ==
  {[kind |-> "ok", exec |-> e] : e \in ExecTimes}
    \cup {[kind |-> k, exec |-> 0] : k \in ThrowNames}

\* what the transport does when handed an RPC with a callback: it accepts
\* it, or throws before sending
AsyncOutcomes ==
  {[kind |-> "ok", exec |-> 0]} \cup {[kind |-> k, exec |-> 0] : k \in ThrowNames}

\* results of an RPC on which processColumnarResults or processRowResults
\* throws (a TypeError): they carry an execution time like any result
Malformed == {[kind |-> "malformed", exec |-> e] : e \in ExecTimes}

QueryArgs == [render : BOOLEAN, async : BOOLEAN, queryId : QueryIds]

\* the instance fields and history a dispatch call works on
Fields ==
  [client |-> client, sessionId |-> sessionId,
   numConnections |-> numConnections, nonce |-> nonce,
   lastRenderCon |-> lastRenderCon, queryTimes |-> queryTimes,
   serverQueueTimes |-> serverQueueTimes, inflight |-> inflight,
   calls |-> calls, log |-> <<>>,
   delivered |-> NoDelivery, emptied |-> emptied]

\* queryId in this.queryTimes ? this.queryTimes[queryId] : DEFAULT_QUERY_TIME
LastQueryTime(qt, queryId) ==
  IF qt[queryId] # Absent THEN qt[queryId] ELSE DEFAULT_QUERY_TIME

\* arr[i] = arr[i] + d on a JavaScript array: a negative or NaN index sets
\* a property and leaves the elements alone, an index past the end leaves
\* NaN there and holes before it
AddAt(arr, i, d) ==
  IF i < 0 THEN arr
  ELSE IF i < Len(arr)
  THEN [arr EXCEPT ![i + 1] = IF @ = NaNTime THEN NaNTime ELSE @ + d]
  ELSE [k \in 1..(i + 1) |-> IF k <= Len(arr) THEN arr[k] ELSE NaNTime]

\* the mutation of SelectLegacy: adaptive always, whatever the strategy
SelectAdaptiveOnly(strategy, queue, curNonce, n) == IndexOfMin(queue)

\* the connection id part_000 selects
SelectLegacy(strategy, queue, curNonce, n) ==
  IF strategy = "adaptive" THEN IndexOfMin(queue) ELSE NonceMod(curNonce, n)

\* the connection id mapd-con-es6.js selects
SelectEs6(strategy, queue, curNonce, n) == 0

\* this._client[conId] is an object a method can be called on
HasClient(cl, conId) == ~IsNull(cl) /\ conId >= 0 /\ conId < Len(cl)

\* the mutation of RetryableLegacy and RetryableEs6: nothing is retried
RetryNever(name) == FALSE

\* err.name == "NetworkError" || err.name == "TMapDException"
RetryableLegacy(name) == name \in {"NetworkError", "TMapDException"}

\* err.name === 'NetworkError'
RetryableEs6(name) == name = "NetworkError"

\* the mutation of NoRemaining: the test never fires
NoRemainingNever(n) == n < 0

\* this._numConnections == 0 after the removal
NoRemaining(n) == n = 0

\* the mutation of NextNonce: the counter stands still
SameNonce(n) == n

\* this._nonce++
NextNonce(n) == n + 1

\* the mutation of Relieved: the default estimate instead of the charged one
RelievedDefault(exec, conId, est) == DEFAULT_QUERY_TIME

\* what processResults of part_000 subtracts from serverQueueTimes[conId]:
\* nothing when result.execution_time_ms is falsy
Relieved(exec, conId, est) == IF exec # 0 THEN est ELSE 0

\* the bookkeeping of processResults of part_000
ProcessResultsLegacy(st, opt, exec) ==
  IF exec # 0
  THEN [st EXCEPT
          !.serverQueueTimes = AddAt(@, opt.conId, -Relieved(exec, opt.conId, opt.est)),
          !.queryTimes = [@ EXCEPT ![opt.queryId] = exec]]
  ELSE st

\* updateQueryTimes of mapd-con-es6.js
UpdateQueryTimes(qt, conId, queryId, est, exec) == [qt EXCEPT ![queryId] = exec]

\* processQueryResults, as mapd-con-es6.js uses it: it reports the execution
\* time through updateQueryTimes and hands the processed result on
ProcessResultsEs6(st, opt, exec) ==
  [st EXCEPT !.queryTimes = UpdateQueryTimes(@, opt.conId, opt.queryId, opt.est, exec)]

Attempt(st, a, conId, est, rpc, res, nAfter) ==
  [nonce |-> st.nonce, conId |-> conId, strategy |-> balanceStrategy,
   nConn |-> st.numConnections, pool |-> st.client,
   queue |-> st.serverQueueTimes, rpc |-> rpc, res |-> res, est |-> est,
   nAfter |-> nAfter, async |-> a.async, render |-> a.render,
   queryId |-> a.queryId]

Request(st, a, conId, est) ==
  [nonce |-> st.nonce, conId |-> conId, est |-> est, queryId |-> a.queryId,
   render |-> a.render, pixel |-> FALSE]

\* removeConnection(conId) as the catch block of query calls it
Removed(st, conId) ==
  [st EXCEPT !.client = RemoveFrom(@, conId),
             !.sessionId = RemoveFrom(@, conId),
             !.numConnections = @ - 1,
             !.emptied = (Len(st.client) = 1 /\ conId = 0 /\ st.numConnections = 1)]

\* one way a dispatch call can end: the fields it leaves, what its caller
\* gets, and what the innermost call of the recursion ended with
End(s, r) == [st |-> s, ret |-> r, last |-> r]

\* the mutation of Dropped: the retry's value is returned
Passed(results) == results

\* a caller of the recursive this.query(...) drops what it returns; what it
\* throws passes through
Dropped(results) ==
  {[st |-> r.st,
    ret |-> IF r.ret.kind = "throw" THEN r.ret ELSE Returned("undefined"),
    last |-> r.last] : r \in results}

\* query(query, options, callbacks) of part_000: the set of ways one call,
\* its recursive retries included, can end
RECURSIVE QueryLegacy(_, _)
QueryLegacy(st, a) ==
  LET est == LastQueryTime(st.queryTimes, a.queryId)
      conId == SelectLegacy(balanceStrategy, st.serverQueueTimes, st.nonce,
                            st.numConnections)
      charged == AddAt(st.serverQueueTimes, conId, est)
      opt == Request(st, a, conId, est)
      s1(rpc, res, nAfter) ==
        [st EXCEPT !.nonce = NextNonce(@), !.calls = @ + 1,
                   !.lastRenderCon = IF a.render THEN conId ELSE @,
                   !.serverQueueTimes = charged,
                   !.log = Append(@, Attempt(st, a, conId, est, rpc, res, nAfter))]
      Outcome(o) ==
        IF o.kind = "ok"
        THEN IF a.async
             THEN {End([s1(TRUE, "ok", st.numConnections)
                               EXCEPT !.inflight = @ \cup {opt}],
                    Returned("nonce"))}
             ELSE {End(ProcessResultsLegacy(
                             s1(TRUE, "ok", st.numConnections), opt, o.exec),
                    Returned("result"))}
        \* processResults did its bookkeeping, the processor threw inside
        \* the try block: the catch block logs the TypeError and goes on
        ELSE IF o.kind = "malformed"
        THEN {End(ProcessResultsLegacy(
                        s1(TRUE, "malformed", st.numConnections), opt, o.exec),
                  Returned("undefined"))}
        ELSE IF RetryableLegacy(o.kind)
        THEN IF InvalidConId(conId)
             THEN {End(s1(TRUE, o.kind, st.numConnections),
                    Thrown("Remove connection id invalid"))}
             ELSE LET s2 == Removed(s1(TRUE, o.kind, st.numConnections - 1), conId) IN
                  IF NoRemaining(s2.numConnections)
                  THEN {End(s2,
                    Thrown("No remaining database connections"))}
                  ELSE Dropped(QueryLegacy(s2, a))
        ELSE {End(s1(TRUE, o.kind, st.numConnections),
                    Returned("undefined"))}
  IN IF st.nonce >= MaxNonce THEN {}
     ELSE IF \E k \in 1..Len(charged) : charged[k] > MaxQueueTime THEN {}
     ELSE IF ~HasClient(st.client, conId)
     THEN {End(s1(FALSE, "TypeError", st.numConnections),
                    Returned("undefined"))}
     ELSE UNION {Outcome(o) :
                   o \in IF a.async THEN AsyncOutcomes
                         ELSE IF a.render THEN SyncOutcomes
                         ELSE SyncOutcomes \cup Malformed}

\* query(query, options, callback) of mapd-con-es6.js
RECURSIVE QueryEs6(_, _)
QueryEs6(st, a) ==
  LET est == LastQueryTime(st.queryTimes, a.queryId)
      conId == SelectEs6(balanceStrategy, st.serverQueueTimes, st.nonce,
                         st.numConnections)
      opt == Request(st, a, conId, est)
      s1(rpc, res, nAfter) ==
        [st EXCEPT !.nonce = NextNonce(@), !.calls = @ + 1,
                   !.lastRenderCon = IF a.render THEN conId ELSE @,
                   !.log = Append(@, Attempt(st, a, conId, est, rpc, res, nAfter))]
      \* the else branches of the catch block
      Other(s, name) ==
        IF a.async
        THEN {End([s EXCEPT !.delivered = [kind |-> "error", nonce |-> st.nonce]],
                    Returned("undefined"))}
        ELSE {End(s,
                    Thrown(name))}
      Outcome(o) ==
        IF o.kind = "ok"
        THEN IF a.async
             THEN {End([s1(TRUE, "ok", st.numConnections)
                               EXCEPT !.inflight = @ \cup {opt}],
                    Returned("nonce"))}
             ELSE {End(ProcessResultsEs6(
                             s1(TRUE, "ok", st.numConnections), opt, o.exec),
                    Returned("result"))}
        ELSE IF RetryableEs6(o.kind)
        THEN IF InvalidConId(conId)
             THEN {End(s1(TRUE, o.kind, st.numConnections),
                    Thrown("Remove connection id invalid"))}
             ELSE LET s2 == Removed(s1(TRUE, o.kind, st.numConnections - 1), conId) IN
                  IF NoRemaining(s2.numConnections)
                  THEN {End(s2,
                    Thrown("No remaining database connections"))}
                  ELSE Dropped(QueryEs6(s2, a))
        ELSE Other(s1(TRUE, o.kind, st.numConnections), o.kind)
  IN IF st.nonce >= MaxNonce THEN {}
     ELSE IF ~HasClient(st.client, conId)
     THEN Other(s1(FALSE, "TypeError", st.numConnections), "TypeError")
     ELSE IF ~a.render /\ ~a.async
     \* the synchronous sql_execute names curNonc, which is not defined
     THEN Other(s1(FALSE, "ReferenceError", st.numConnections), "ReferenceError")
     ELSE UNION {Outcome(o) :
                   o \in IF a.async THEN AsyncOutcomes ELSE SyncOutcomes}

\* a dispatch call of the instance has ended as r
Dispatched(r) ==
  /\ client' = r.st.client
  /\ sessionId' = r.st.sessionId
  /\ numConnections' = r.st.numConnections
  /\ nonce' = r.st.nonce
  /\ lastRenderCon' = r.st.lastRenderCon
  /\ queryTimes' = r.st.queryTimes
  /\ serverQueueTimes' = r.st.serverQueueTimes
  /\ inflight' = r.st.inflight
  /\ calls' = r.st.calls
  /\ emptied' = r.st.emptied
  /\ ret' = r.ret
  /\ reached' = IF r.st.client = client THEN reached ELSE Unknown
  /\ UNCHANGED <<impl, norm, opts, ping, balanceStrategy, pendingConn, pendingDisc>>

\* the ways a call of query can end in the copy the instance runs
QueryResults(st, a) ==
  IF impl = "legacy" THEN QueryLegacy(st, a) ELSE QueryEs6(st, a)

Query(a) ==
  /\ a.async => Cardinality(inflight) < MaxInflight
  /\ \E r \in QueryResults(Fields, a) : Dispatched(r)

\* the pixel-row requests of each copy
PixelKinds ==
  IF impl = "legacy" THEN {"getRowsForPixels"}
  ELSE {"getRowsForPixels", "getRowForPixel", "getResultRowForPixel"}

\* getRowsForPixels, getRowForPixel and getResultRowForPixel: a fresh nonce,
\* one RPC on the connection of the last render, every error rethrown
PixelResults(st, async) ==
  LET conId == st.lastRenderCon
      a == [render |-> FALSE, async |-> async, queryId |-> "-2"]
      s1(rpc, res) ==
        [st EXCEPT !.nonce = NextNonce(@), !.calls = @ + 1,
                   !.log = <<Attempt(st, a, conId, 0, rpc, res, st.numConnections)>>]
      Outcome(o) ==
        IF o.kind # "ok" THEN End(s1(TRUE, o.kind), Thrown(o.kind))
        ELSE IF async
        THEN End([s1(TRUE, "ok") EXCEPT !.inflight = @ \cup
                    {[Request(st, a, conId, 0) EXCEPT !.pixel = TRUE]}],
                 Returned("nonce"))
        ELSE End(s1(TRUE, "ok"), Returned("result"))
  IN IF st.nonce >= MaxNonce THEN {}
     ELSE IF ~HasClient(st.client, conId)
     THEN {End(s1(FALSE, "TypeError"), Thrown("TypeError"))}
     ELSE {Outcome(o) : o \in IF async THEN AsyncOutcomes ELSE SyncOutcomes}

PixelRequest(kind, async) ==
  /\ kind \in PixelKinds
  /\ async => Cardinality(inflight) < MaxInflight
  /\ \E r \in PixelResults(Fields, async) : Dispatched(r)

\* renderVega(widgetid, vega, options, callback) of mapd-con-es6.js
RenderVegaResults(st, queryId, async) ==
  LET est == LastQueryTime(st.queryTimes, queryId)
      conId == 0
      a == [render |-> TRUE, async |-> async, queryId |-> queryId]
      opt == Request(st, a, conId, est)
      s1(rpc, res) ==
        [st EXCEPT !.nonce = NextNonce(@), !.calls = @ + 1,
                   !.lastRenderCon = conId,
                   !.log = <<Attempt(st, a, conId, est, rpc, res, st.numConnections)>>]
      Outcome(o) ==
        IF o.kind # "ok" THEN End(s1(TRUE, o.kind), Thrown(o.kind))
        ELSE IF async
        THEN End([s1(TRUE, "ok") EXCEPT !.inflight = @ \cup {opt}],
                 Returned("nonce"))
        ELSE End(ProcessResultsEs6(s1(TRUE, "ok"), opt, o.exec),
                 Returned("result"))
  IN IF st.nonce >= MaxNonce THEN {}
     ELSE IF ~HasClient(st.client, conId)
     THEN {End(s1(FALSE, "TypeError"), Thrown("TypeError"))}
     ELSE {Outcome(o) : o \in IF async THEN AsyncOutcomes ELSE SyncOutcomes}

RenderVega(queryId, async) ==
  /\ impl = "es6"
  /\ async => Cardinality(inflight) < MaxInflight
  /\ \E r \in RenderVegaResults(Fields, queryId, async) : Dispatched(r)

\* what the transport hands the callback of an asynchronous RPC
Replies == {[kind |-> "ok", exec |-> e] : e \in ExecTimes}
             \cup {[kind |-> "error", exec |-> 0]}

\* the reply o to the asynchronous request r arrives.  part_000 binds
\* processResults as the Thrift callback, which also receives a failed
\* call's exception object in place of the result; mapd-con-es6.js gets
\* (error, result).  handed is what the caller's callback is given
Completed(st, r, o) ==
  [st |->
     [(IF o.kind \notin {"ok", "malformed"} \/ r.pixel THEN st
       ELSE IF impl = "legacy" THEN ProcessResultsLegacy(st, r, o.exec)
       ELSE ProcessResultsEs6(st, r, o.exec))
      EXCEPT !.inflight = @ \ {r}],
   handed |->
     IF o.kind = "ok" THEN "result"
     ELSE IF o.kind = "malformed" THEN "none"
     ELSE IF impl = "es6" THEN "error"
     ELSE IF r.render THEN "exception" ELSE "none"]

\* the replies request r can get: a malformed result is one the processors
\* of part_000 run on, so one to a query without renderSpec
RepliesTo(r) ==
  IF impl = "legacy" /\ ~r.render /\ ~r.pixel
  THEN Replies \cup Malformed ELSE Replies

Completion(r, o) ==
  /\ r \in inflight
  /\ o \in RepliesTo(r)
  /\ LET c == Completed(Fields, r, o) IN
       /\ inflight' = c.st.inflight
       /\ queryTimes' = c.st.queryTimes
       /\ serverQueueTimes' = c.st.serverQueueTimes
  /\ ret' = NoRet
  /\ UNCHANGED <<impl, norm, opts, ping, client, sessionId, numConnections, nonce,
                 balanceStrategy, lastRenderCon, calls, emptied,
                 pendingConn, pendingDisc, reached>>

\* -------------------------------------------------------------- ping
\* pingServers(callback) of mapd-con-es6.js: serverPingTimes and pingCount
\* are reset and NUM_PINGS_PER_SERVER probes sent to each connection; the
\* loop runs to _numConnections and breaks where no client is left
PingServersEnd ==
  IF IsNull(sessionId) THEN [ping |-> ping, ret |-> Returned("undefined")]
  ELSE IF numConnections < 0 THEN [ping |-> ping, ret |-> Thrown("RangeError")]
  ELSE LET have == IF IsNull(client) THEN 0 ELSE Len(client)
           asked == IF numConnections < have THEN numConnections ELSE have
       IN [ping |-> [times |-> Zeros(numConnections), count |-> 0,
                     pending |-> [c \in 1..NumEndpoints |->
                        ping.pending[c] +
                          (IF c <= asked THEN NUM_PINGS_PER_SERVER ELSE 0)]],
           ret |-> IF numConnections > have THEN Thrown("TypeError")
                   ELSE Returned("undefined")]

\* the probes outstanding over all connection ids
RECURSIVE Outstanding(_, _)
Outstanding(pending, c) ==
  IF c > NumEndpoints THEN 0 ELSE pending[c] + Outstanding(pending, c + 1)

PingServers ==
  /\ impl = "es6"
  /\ LET r == PingServersEnd IN
       /\ Outstanding(r.ping.pending, 1) <= MaxProbes
       /\ ping' = r.ping
       /\ Quiet(r.ret)
  /\ UNCHANGED <<impl, norm, opts, client, sessionId, numConnections, nonce,
                 balanceStrategy, lastRenderCon, queryTimes,
                 serverQueueTimes, inflight, emptied, pendingConn,
                 pendingDisc, reached>>

\* arr[i] /= NUM_PINGS_PER_SERVER on a JavaScript array
DivAt(arr, i) ==
  IF i < Len(arr)
  THEN [arr EXCEPT ![i + 1] =
          IF @ = NaNTime THEN NaNTime ELSE @ \div NUM_PINGS_PER_SERVER]
  ELSE [k \in 1..(i + 1) |-> IF k <= Len(arr) THEN arr[k] ELSE NaNTime]

\* serverQueueTimes[c] += serverPingTimes[c]
Handicapped(queue, times, c) ==
  IF c < Len(times) /\ times[c + 1] # NaNTime THEN AddAt(queue, c, times[c + 1])
  ELSE IF c < Len(queue) THEN [queue EXCEPT ![c + 1] = NaNTime]
  ELSE AddAt(queue, c, 0)

\* the loop of pingServersCallback over the connections c..n-1
RECURSIVE Averaged(_, _, _, _)
Averaged(times, queue, c, n) ==
  IF c >= n THEN [times |-> times, queue |-> queue]
  ELSE LET t == DivAt(times, c)
       IN Averaged(t, Handicapped(queue, t, c), c + 1, n)

\* pingServersCallback(startTime, serverNum, callback) for a probe of
\* connection serverNum that took duration: the ping fields and queue state
\* it leaves and how it ends
PingReplyEnd(serverNum, duration) ==
  LET pend == [ping.pending EXCEPT ![serverNum + 1] = @ - 1]
      t1 == AddAt(ping.times, serverNum, duration)
      cnt == ping.count + 1
  IN IF ping.times = NullTimes
     THEN [ping |-> [ping EXCEPT !.pending = pend],
           serverQueueTimes |-> serverQueueTimes, ret |-> Thrown("TypeError")]
     ELSE IF cnt # numConnections * NUM_PINGS_PER_SERVER
     THEN [ping |-> [times |-> t1, count |-> cnt, pending |-> pend],
           serverQueueTimes |-> serverQueueTimes,
           ret |-> Returned("undefined")]
     ELSE IF serverQueueTimes = NullTimes
     THEN [ping |-> [times |-> DivAt(t1, 0), count |-> 0, pending |-> pend],
           serverQueueTimes |-> serverQueueTimes, ret |-> Thrown("TypeError")]
     ELSE LET a == Averaged(t1, serverQueueTimes, 0, numConnections)
          IN [ping |-> [times |-> a.times, count |-> 0, pending |-> pend],
              serverQueueTimes |-> a.queue, ret |-> Called("serverQueueTimes")]

PingReply(serverNum, duration) ==
  /\ impl = "es6"
  /\ ping.pending[serverNum + 1] > 0
  /\ LET r == PingReplyEnd(serverNum, duration) IN
       /\ ping' = r.ping
       /\ serverQueueTimes' = r.serverQueueTimes
       /\ Quiet(r.ret)
  /\ UNCHANGED <<impl, norm, opts, client, sessionId, numConnections, nonce,
                 balanceStrategy, lastRenderCon, queryTimes, inflight,
                 emptied, pendingConn, pendingDisc, reached>>

Next ==
  \/ ConnectLegacy
  \/ \E d \in Faults : DisconnectLegacy(d)
  \/ \E cfg \in Configs : ConnectEs6(cfg)
  \/ \E h \in Endpoints, e \in BOOLEAN : ConnectReply(h, e)
  \/ DisconnectEs6
  \/ \E e \in BOOLEAN : DisconnectReply(e)
  \/ \E s \in Strategies : SetBalanceStrategy(s)
  \/ \E c \in -1..NumEndpoints : RemoveConnection(c)
  \/ \E a \in QueryArgs : Query(a)
  \/ \E k \in PixelKinds, async \in BOOLEAN : PixelRequest(k, async)
  \/ \E q \in QueryIds, async \in BOOLEAN : RenderVega(q, async)
  \/ \E r \in inflight, o \in Replies \cup Malformed : Completion(r, o)

Spec == Init /\ [][Next]_vars

\* ------------------------------------------------------- normalisation
\* values of a canonical row: null, a string, a number, a boolean, a Date
\* (n its milliseconds) or an Array (e its elements)
Js(t, n, s, e) == [t |-> t, n |-> n, s |-> s, e |-> e]
JsNull == Js("null", 0, "", <<>>)
JsString(s) == Js("string", 0, s, <<>>)
JsNumber(n) == Js("number", n, "", <<>>)
JsBool(b) == Js("boolean", IF b THEN 1 ELSE 0, "", <<>>)
JsDate(ms) == Js("Date", ms, "", <<>>)
JsArray(e) == Js("Array", 0, "", e)
\* no value: a switch over the field type that matched no case
Unassigned == Js("unassigned", 0, "", <<>>)
IsAssigned(v) == v # Unassigned

\* the type codes of the transport's TDatumType
TDatumType ==
  [SMALLINT |-> 0, INT |-> 1, BIGINT |-> 2, FLOAT |-> 3, DECIMAL |-> 4,
   DOUBLE |-> 5, STR |-> 6, TIME |-> 7, TIMESTAMP |-> 8, DATE |-> 9,
   BOOL |-> 10]

\* this._datumEnum, filled by invertDatumTypes: type code -> type name
DatumEnum(code) ==
  IF \E key \in DOMAIN TDatumType : TDatumType[key] = code
  THEN CHOOSE key \in DOMAIN TDatumType : TDatumType[key] = code
  ELSE "undefined"

\* formattedResult.fields of both processors
FormattedFields(row_desc) ==
  [i \in 1..Len(row_desc) |->
     [name |-> row_desc[i].col_name,
      type |-> DatumEnum(row_desc[i].col_type.type),
      is_array |-> row_desc[i].col_type.is_array]]

\* the object whose keys are assigned column by column: row[fieldName] = ...
RowObject(fields, cells) ==
  LET sets(n) == {c \in 1..Len(fields) :
                    fields[c].name = n /\ IsAssigned(cells[c])}
  IN [n \in {fields[c].name : c \in {c2 \in 1..Len(fields) :
                                       IsAssigned(cells[c2])}} |->
        cells[CHOOSE c \in sets(n) : \A c2 \in sets(n) : c2 <= c]]

\* what a call returns, or that it threw
Formatted(fields, results) ==
  [thrown |-> FALSE, fields |-> fields, results |-> results]
Failed == [thrown |-> TRUE, fields |-> <<>>, results |-> <<>>]

\* processColumnarResults: element e of an array cell
ColumnarElement(fieldType, data, e) ==
  CASE fieldType = "BOOL" -> JsBool(data.int_col[e] # 0)
    [] fieldType \in {"SMALLINT", "INT", "BIGINT"} -> JsNumber(data.int_col[e])
    [] fieldType \in {"FLOAT", "DOUBLE", "DECIMAL"} ->
         JsNumber(data.real_col[e])
    [] fieldType = "STR" -> JsString(data.str_col[e])
    [] fieldType \in {"TIME", "TIMESTAMP", "DATE"} ->
         JsNumber(data.int_col[e] * 1000)
    [] OTHER -> Unassigned

\* processColumnarResults: the scalar of row r
ColumnarScalar(fieldType, data, r) ==
  CASE fieldType = "BOOL" -> JsBool(data.int_col[r] # 0)
    [] fieldType \in {"SMALLINT", "INT", "BIGINT"} -> JsNumber(data.int_col[r])
    [] fieldType \in {"FLOAT", "DOUBLE", "DECIMAL"} ->
         JsNumber(data.real_col[r])
    [] fieldType = "STR" -> JsString(data.str_col[r])
    [] fieldType \in {"TIME", "TIMESTAMP", "DATE"} ->
         JsDate(data.int_col[r] * 1000)
    [] OTHER -> Unassigned

\* processColumnarResults: the value of one field of row r
ColumnarCell(field, column, r) ==
  IF column.nulls[r] THEN JsNull
  ELSE IF field.is_array
  THEN LET a == column.data.arr_col[r]
       IN JsArray(SelectSeq([e \in 1..Len(a.nulls) |->
                               IF a.nulls[e] THEN JsString("NULL")
                               ELSE ColumnarElement(field.type, a.data, e)],
                            IsAssigned))
  ELSE ColumnarScalar(field.type, column.data, r)

\* processColumnarResults: the loop over the rows from r on
RECURSIVE ColumnarRows(_, _, _, _, _)
ColumnarRows(data, fields, eliminateNullRows, numRows, r) ==
  IF r > numRows THEN <<>>
  ELSE LET numCols == Len(data.row_desc)
           rest == ColumnarRows(data, fields, eliminateNullRows, numRows, r + 1)
           row == RowObject(fields,
                    [c \in 1..numCols |->
                       ColumnarCell(fields[c], data.columns[c], r)])
       IN IF eliminateNullRows
             /\ \E c \in 1..numCols : data.columns[c].nulls[r]
          THEN rest
          ELSE <<row>> \o rest

processColumnarResults(data, eliminateNullRows) ==
  LET numRows == IF Len(data.columns) >= 1
                 THEN Len(data.columns[1].nulls) ELSE 0
      fields == FormattedFields(data.row_desc)
  IN Formatted(fields,
               ColumnarRows(data, fields, eliminateNullRows, numRows, 1))

\* processRowResults: an element of an array cell
RowElement(fieldType, val) ==
  CASE fieldType = "BOOL" -> JsBool(val.int_val # 0)
    [] fieldType \in {"SMALLINT", "INT", "BIGINT"} -> JsNumber(val.int_val)
    [] fieldType \in {"FLOAT", "DOUBLE", "DECIMAL"} -> JsNumber(val.real_val)
    [] fieldType = "STR" -> JsString(val.str_val)
    [] fieldType \in {"TIME", "TIMESTAMP", "DATE"} ->
         JsNumber(val.int_val * 1000)
    [] OTHER -> Unassigned

\* processRowResults: a scalar cell
RowScalar(fieldType, val) ==
  CASE fieldType = "BOOL" -> JsBool(val.int_val # 0)
    [] fieldType \in {"SMALLINT", "INT", "BIGINT"} -> JsNumber(val.int_val)
    [] fieldType \in {"FLOAT", "DOUBLE", "DECIMAL"} -> JsNumber(val.real_val)
    [] fieldType = "STR" -> JsString(val.str_val)
    [] fieldType \in {"TIME", "TIMESTAMP", "DATE"} ->
         JsDate(val.int_val * 1000)
    [] OTHER -> Unassigned

\* processRowResults: the value of one field from its datum
RowCell(field, datum) ==
  IF field.is_array
  THEN IF datum.is_null THEN JsString("NULL")
       ELSE JsArray(SelectSeq([e \in 1..Len(datum.val.arr_val) |->
                                 LET elemDatum == datum.val.arr_val[e]
                                 IN IF elemDatum.is_null THEN JsString("NULL")
                                    ELSE RowElement(field.type, elemDatum.val)],
                              IsAssigned))
  ELSE IF datum.is_null THEN JsString("NULL")
  ELSE RowScalar(field.type, datum.val)

\* processRowResults: the loop over the rows from r on; the null test reads
\* data.rows[r].columns
RECURSIVE RowRows(_, _, _, _)
RowRows(data, fields, eliminateNullRows, r) ==
  IF r > Len(data.rows) THEN <<>>
  ELSE LET numCols == Len(data.row_desc)
           rest == RowRows(data, fields, eliminateNullRows, r + 1)
           row == RowObject(fields,
                    [c \in 1..numCols |->
                       RowCell(fields[c], data.rows[r].cols[c])])
       IN IF eliminateNullRows
             /\ \E c \in 1..numCols : data.rows[r].columns[c].is_null
          THEN rest
          ELSE <<row>> \o rest

\* processRowResults; a row without the property columns makes the null test
\* throw a TypeError
processRowResults(data, eliminateNullRows) ==
  IF /\ eliminateNullRows
     /\ Len(data.row_desc) >= 1
     /\ \E r \in 1..Len(data.rows) : "columns" \notin DOMAIN data.rows[r]
  THEN Failed
  ELSE LET fields == FormattedFields(data.row_desc)
       IN Formatted(fields, RowRows(data, fields, eliminateNullRows, 1))

\* the tail of processResults for a result that is no image: the processor
\* is chosen by row_set.is_columnar
FormattedResult(row_set, eliminateNullRows) ==
  IF row_set.is_columnar
  THEN processColumnarResults(row_set, eliminateNullRows)
  ELSE processRowResults(row_set, eliminateNullRows)

\* ---- result blocks of a logical table: rows of TDatum cells
TDatum(is_null, int_val, real_val, str_val, arr_val) ==
  [is_null |-> is_null,
   val |-> [int_val |-> int_val, real_val |-> real_val, str_val |-> str_val,
            arr_val |-> arr_val]]
NullDatum == TDatum(TRUE, 0, 0, "", <<>>)

\* the TColumn holding cells, arr_col being the TColumns of the array cells
ElemColumn(cells) ==
  [nulls |-> [e \in 1..Len(cells) |-> cells[e].is_null],
   data |-> [int_col |-> [e \in 1..Len(cells) |-> cells[e].val.int_val],
             real_col |-> [e \in 1..Len(cells) |-> cells[e].val.real_val],
             str_col |-> [e \in 1..Len(cells) |-> cells[e].val.str_val],
             arr_col |-> <<>>]]
TColumn(cells) ==
  [nulls |-> [r \in 1..Len(cells) |-> cells[r].is_null],
   data |-> [int_col |-> [r \in 1..Len(cells) |-> cells[r].val.int_val],
             real_col |-> [r \in 1..Len(cells) |-> cells[r].val.real_val],
             str_col |-> [r \in 1..Len(cells) |-> cells[r].val.str_val],
             arr_col |-> [r \in 1..Len(cells) |->
                            ElemColumn(cells[r].val.arr_val)]]]

\* the columnar TRowSet of a table: per field a null bitmap and the values
ColumnarBlock(row_desc, table) ==
  [row_desc |-> row_desc, is_columnar |-> TRUE, rows |-> <<>>,
   columns |-> [c \in 1..Len(row_desc) |->
                  TColumn([r \in 1..Len(table) |-> table[r][c]])]]

\* the row-oriented TRowSet of a table: per row the TRow of its cells
RowBlock(row_desc, table) ==
  [row_desc |-> row_desc, is_columnar |-> FALSE, columns |-> <<>>,
   rows |-> [r \in 1..Len(table) |-> [cols |-> table[r]]]]

\* ---- the result blocks explored
FieldNames == {"a", "b"}
FieldTypes == {"BOOL", "DOUBLE", "STR", "DATE"}
\* a type code that TDatumType does not hold
UnmappedType == 99
TypeCodes == {TDatumType[t] : t \in FieldTypes} \cup {UnmappedType}
Descriptors ==
  {[col_name |-> n, col_type |-> [type |-> code, is_array |-> a]] :
     n \in FieldNames, code \in TypeCodes, a \in BOOLEAN}
FieldLists == UNION {[1..n -> Descriptors] : n \in 0..MaxCols}

\* the values a server sends for a field of type t
ScalarData(t) ==
  CASE t = "BOOL" -> {TDatum(FALSE, 0, 0, "", <<>>),
                      TDatum(FALSE, 1, 0, "", <<>>)}
    [] t = "DOUBLE" -> {TDatum(FALSE, 0, 7, "", <<>>)}
    [] t = "STR" -> {TDatum(FALSE, 0, 0, "x", <<>>)}
    [] t = "DATE" -> {TDatum(FALSE, 2, 0, "", <<>>)}
    [] OTHER -> {TDatum(FALSE, 3, 0, "", <<>>)}
Cells(d) ==
  LET t == DatumEnum(d.col_type.type)
  IN IF d.col_type.is_array
     THEN {NullDatum} \cup
          {TDatum(FALSE, 0, 0, "", elems) :
             elems \in UNION {[1..k -> ScalarData(t) \cup {NullDatum}] :
                                k \in 0..MaxElems}}
     ELSE {NullDatum} \cup ScalarData(t)

RECURSIVE RowsOver(_, _)
RowsOver(row_desc, c) ==
  IF c > Len(row_desc) THEN {<<>>}
  ELSE {<<a>> \o rest : a \in Cells(row_desc[c]),
                        rest \in RowsOver(row_desc, c + 1)}
\* the tables over row_desc that both layouts can carry: the columnar one
\* takes its row count from the first field
Tables(row_desc) ==
  UNION {[1..m -> RowsOver(row_desc, 1)] :
           m \in 0..(IF Len(row_desc) = 0 THEN 0 ELSE MaxRows)}

\* both encodings of the table are received and normalised
Normalize ==
  /\ impl = "legacy"
  /\ norm.out = <<>>
  /\ norm' = [norm EXCEPT !.out =
       <<FormattedResult(ColumnarBlock(norm.input.fields, norm.input.table),
                         norm.input.eliminateNullRows),
         FormattedResult(RowBlock(norm.input.fields, norm.input.table),
                         norm.input.eliminateNullRows)>>]
  /\ UNCHANGED <<impl, client, sessionId, numConnections, nonce,
                 balanceStrategy, lastRenderCon, queryTimes, serverQueueTimes,
                 inflight, calls, ret, emptied, pendingConn, pendingDisc,
                 ping, reached, opts>>

InitNormalize ==
  /\ Constructed
  /\ opts = Unparsed
  /\ impl = "legacy"
  /\ \E f \in FieldLists : \E t \in Tables(f) : \E e \in BOOLEAN :
       norm = [input |-> [fields |-> f, table |-> t, eliminateNullRows |-> e],
               out |-> <<>>]

NextNormalize == Normalize

SpecNormalize == InitNormalize /\ [][NextNormalize]_vars

\* ------------------------------------------------------------- options
\* the options objects explored: none, or one with each property absent or
\* set (booleans to true or false)
OptionValues == {"absent", "true", "false"}
OptionSets ==
  {NoOptions} \cup
  [given : {TRUE}, columnarResults : OptionValues,
   eliminateNullRows : OptionValues, renderSpec : {"absent", "spec"},
   queryId : {"absent", "q1"}]

\* options.p as JavaScript reads it: undefined when the property is absent
Prop(v) == IF v = "absent" THEN "undefined" ELSE v
Truthy(v) == v \notin {"absent", "undefined", "false"}

\* the head of query of part_000: columnarResults and eliminateNullRows as
\* read from options
ParseOptionsLegacy(o) ==
  IF ~o.given
  THEN [columnarResults |-> "true", eliminateNullRows |-> "false"]
  ELSE [columnarResults |->
          IF Truthy(o.columnarResults) THEN Prop(o.columnarResults)
          ELSE "true",
        eliminateNullRows |->
          IF Truthy(o.eliminateNullRows) THEN Prop(o.columnarResults)
          ELSE "false"]

\* the head of query of mapd-con-es6.js
ParseOptionsEs6(o) ==
  IF ~o.given
  THEN [columnarResults |-> "true", eliminateNullRows |-> "false"]
  ELSE [columnarResults |->
          IF o.columnarResults # "absent" THEN o.columnarResults ELSE "true",
        eliminateNullRows |->
          IF o.eliminateNullRows # "absent" THEN o.eliminateNullRows
          ELSE "false"]

\* query reads its options in the copy the instance runs
ParseOptions ==
  /\ opts.out = <<>>
  /\ opts' = [opts EXCEPT !.out =
       <<IF impl = "legacy" THEN ParseOptionsLegacy(opts.input)
         ELSE ParseOptionsEs6(opts.input)>>]
  /\ UNCHANGED <<impl, client, sessionId, numConnections, nonce,
                 balanceStrategy, lastRenderCon, queryTimes, serverQueueTimes,
                 inflight, calls, ret, emptied, pendingConn, pendingDisc,
                 ping, reached, norm>>

InitOptions ==
  /\ Constructed
  /\ norm = Idle
  /\ \E o \in OptionSets : opts = [input |-> o, out |-> <<>>]

NextOptions == ParseOptions

SpecOptions == InitOptions /\ [][NextOptions]_vars

\* the connection pool of mapd-con-es6.js under pingServers: connect,
\* disconnect, removeConnection, pingServers and their replies
InitPing == Init /\ impl = "es6"

NextPing ==
  \/ \E cfg \in Configs : ConnectEs6(cfg)
  \/ \E h \in Endpoints, e \in BOOLEAN : ConnectReply(h, e)
  \/ DisconnectEs6
  \/ \E e \in BOOLEAN : DisconnectReply(e)
  \/ RemoveConnection(0)
  \/ PingServers
  \/ \E c \in 0..(NumEndpoints - 1), d \in PingTimes : PingReply(c, d)

SpecPing == InitPing /\ [][NextPing]_vars

\* ---------------------------------------------------------------- claims
\* every way a call of query made in the current state can end
QueryEnds == UNION {QueryResults(Fields, a) : a \in QueryArgs}

\* every way a dispatch call of any kind made in the current state can end
DispatchEnds ==
  QueryEnds
    \cup UNION {PixelResults(Fields, async) : async \in BOOLEAN}
    \cup (IF impl = "es6"
          THEN UNION {RenderVegaResults(Fields, q, async) :
                        q \in QueryIds, async \in BOOLEAN}
          ELSE {})

NoRemainingError == Thrown("No remaining database connections")

\* C1: an attempt of query whose RPC fails with a NetworkError while another
\* connection is in the pool is followed by another attempt of the same
\* call, made on the pool without the failing connection, and that attempt
\* issues its RPC on a connection of that pool.
C1_RetryOnRemaining ==
  \A r \in QueryEnds : \A i \in 1..Len(r.st.log) :
    LET at == r.st.log[i] IN
    (at.rpc /\ at.res = "NetworkError" /\ Len(at.pool) >= 2) =>
      /\ i < Len(r.st.log)
      /\ r.st.log[i + 1].pool = Splice(at.pool, at.conId)
      /\ r.st.log[i + 1].rpc

\* C2: when an attempt of query fails with a NetworkError and the retry
\* succeeds, a synchronous caller gets the retry's result as the return
\* value, an asynchronous caller's request is on its way to the callback,
\* and the call throws nothing; the call ends with the exhausted-connections
\* error only when no connection is left.
C2_RetryTransparent ==
  \A r \in QueryEnds :
    LET lg == r.st.log IN
    /\ (/\ Len(lg) >= 2
        /\ \A i \in 1..(Len(lg) - 1) : lg[i].res = "NetworkError"
        /\ lg[Len(lg)].res = "ok") =>
         /\ r.ret.kind # "throw"
         /\ r.st.delivered = NoDelivery
         /\ IF lg[1].async
            THEN \E q \in r.st.inflight : q.nonce = lg[Len(lg)].nonce
            ELSE r.ret = Returned("result")
    /\ r.ret = NoRemainingError => Len(r.st.client) = 0

\* the errors after which the running copy removes the connection
Retryable(name) ==
  IF impl = "legacy" THEN RetryableLegacy(name) ELSE RetryableEs6(name)

\* C3: when the removal that follows a failed attempt leaves
\* _numConnections at 0, that attempt is the last one of the call and the
\* call throws the 'No remaining database connections' error.
C3_ExhaustedIsFatal ==
  \A r \in QueryEnds : \A i \in 1..Len(r.st.log) :
    LET at == r.st.log[i] IN
    (at.rpc /\ Retryable(at.res) /\ at.nAfter = 0) =>
      /\ i = Len(r.st.log)
      /\ r.ret = NoRemainingError

\* a query call has just ended with the exhausted-connections error, and the
\* removal it made emptied the pool
C3_Witness ==
  /\ ret = NoRemainingError
  /\ numConnections = 0
  /\ emptied
  /\ client = <<>>

\* C4: once removeConnection has removed the last connection, every call of
\* query ends with the exhausted-connections error.
C4_QueryOnEmptyPoolFails ==
  (emptied /\ client = <<>> /\ numConnections = 0) =>
    /\ QueryEnds # {}
    /\ \A r \in QueryEnds : r.ret = NoRemainingError

\* the slots of a queue that hold a number
Numeric(queue) == {k \in 1..Len(queue) : queue[k] # NaNTime}

\* id is the lowest index at which queue is smallest
IsArgMin(queue, id) ==
  /\ id + 1 \in 1..Len(queue)
  /\ queue[id + 1] # NaNTime
  /\ \A k \in Numeric(queue) : queue[id + 1] <= queue[k]
  /\ \A k \in Numeric(queue) : k < id + 1 => queue[id + 1] < queue[k]

\* C5: under the adaptive strategy every attempt of query made while the
\* instance holds a queue state selects the lowest index at which the queue
\* state is smallest.
C5_AdaptiveArgMin ==
  \A r \in QueryEnds : \A i \in 1..Len(r.st.log) :
    LET at == r.st.log[i] IN
    (at.strategy = "adaptive" /\ at.queue # NullTimes /\ Len(at.queue) > 0) =>
      IsArgMin(at.queue, at.conId)

\* C6: every attempt query makes on a pool that holds a connection selects
\* an id with 0 <= id < numConnections.
C6_SelectedIdValid ==
  \A r \in QueryEnds : \A i \in 1..Len(r.st.log) :
    LET at == r.st.log[i] IN
    (~IsNull(at.pool) /\ Len(at.pool) >= 1 /\ at.nConn >= 1) =>
      (0 <= at.conId /\ at.conId < at.nConn)

\* C7: under the round-robin strategy every attempt of query selects the
\* attempt's nonce modulo numConnections.
C7_RoundRobinNonceMod ==
  \A r \in QueryEnds : \A i \in 1..Len(r.st.log) :
    LET at == r.st.log[i] IN
    (at.strategy = "roundrobin" /\ at.nConn >= 1) =>
      at.conId = at.nonce % at.nConn

\* C8: the nonce counts the dispatch invocations made so far (starting at 0);
\* the attempts of any dispatch call take the consecutive values from the
\* counter on and leave the counter behind them; and every request still in
\* flight carries a value below the counter, no two the same: a value once
\* used is never attached to another request.
C8_NonceFresh ==
  /\ nonce = calls
  /\ \A q \in inflight : q.nonce < nonce
  /\ \A q1, q2 \in inflight : q1.nonce = q2.nonce => q1 = q2
  /\ \A r \in DispatchEnds :
       /\ Len(r.st.log) >= 1
       /\ \A i \in 1..Len(r.st.log) : r.st.log[i].nonce = nonce + i - 1
       /\ r.st.nonce = nonce + Len(r.st.log)

\* three dispatch calls have been made, two requests are in flight under
\* different nonces
C8_Witness ==
  /\ nonce = 3
  /\ calls = 3
  /\ \E q1, q2 \in inflight : q1.nonce # q2.nonce
  /\ ret.kind \in {"nonce", "undefined", "throw"}

\* an accepted asynchronous dispatch of a single attempt
Accepted(r) == Len(r.st.log) = 1 /\ r.st.log[1].res = "ok" /\ r.st.log[1].async

\* C9: from two connections with queue state [0,0], three adaptive
\* asynchronous dispatches of an unknown query id in a row, none completed
\* in between, select 0, 1, 0 and leave the queue state at [100,50].
C9_ThreeDispatches ==
  (/\ ~IsNull(client) /\ Len(client) = 2 /\ numConnections = 2
   /\ serverQueueTimes = <<0, 0>>
   /\ balanceStrategy = "adaptive") =>
    \A a \in {b \in QueryArgs : b.async /\ queryTimes[b.queryId] = Absent} :
    \A r1 \in {r \in QueryResults(Fields, a) : Accepted(r)} :
    \A r2 \in {r \in QueryResults([r1.st EXCEPT !.log = <<>>], a) : Accepted(r)} :
    \A r3 \in {r \in QueryResults([r2.st EXCEPT !.log = <<>>], a) : Accepted(r)} :
      /\ <<r1.st.log[1].conId, r2.st.log[1].conId, r3.st.log[1].conId>> = <<0, 1, 0>>
      /\ r3.st.serverQueueTimes = <<100, 50>>

\* the three dispatches have been made: three requests in flight, on 0, 1
\* and 0 in the order of their nonces, the queue state at [100,50]
C9_Witness ==
  /\ impl = "legacy"
  /\ balanceStrategy = "adaptive"
  /\ nonce = 3
  /\ serverQueueTimes = <<100, 50>>
  /\ ret = Returned("nonce")
  /\ {<<q.nonce, q.conId, q.est>> : q \in inflight}
       = {<<0, 0, 50>>, <<1, 1, 50>>, <<2, 0, 50>>}

\* C10: where the instance keeps a queue state, an accepted dispatch has
\* added LastQueryTime to the slot of the selected connection, and the
\* successful reply to a request subtracts the request's estimate from the
\* slot it was added to and stores the reported execution time, whatever
\* the time reported.
C10_ChargeAndRelieve ==
  serverQueueTimes # NullTimes =>
    /\ \A r \in QueryEnds :
         (Len(r.st.log) = 1 /\ r.st.log[1].res = "ok" /\ r.st.log[1].async) =>
           LET at == r.st.log[1] IN
           /\ at.est = LastQueryTime(queryTimes, at.queryId)
           /\ IsArgMin(serverQueueTimes, at.conId) =>
                r.st.serverQueueTimes[at.conId + 1]
                  = serverQueueTimes[at.conId + 1] + at.est
    /\ \A q \in inflight : \A e \in ExecTimes :
         (~q.pixel /\ q.conId + 1 \in Numeric(serverQueueTimes)) =>
           LET c == Completed(Fields, q, [kind |-> "ok", exec |-> e]) IN
           /\ c.st.serverQueueTimes[q.conId + 1]
                = serverQueueTimes[q.conId + 1] - q.est
           /\ c.st.queryTimes[q.queryId] = e

\* C11: every entry of the queue state the instance holds is a number and
\* is not negative.
C11_QueueNonNegative ==
  serverQueueTimes # NullTimes =>
    \A k \in 1..Len(serverQueueTimes) :
      serverQueueTimes[k] # NaNTime /\ serverQueueTimes[k] >= 0

\* the connection ids of the pool as the count gives them
ValidIds == {c \in 0..NumEndpoints : c < numConnections}

\* C12: removeConnection(id) with id < 0 or id >= numConnections throws the
\* invalid-id error and leaves the client list, the session list and the
\* count as they were.
C12_InvalidIdRejected ==
  \A c \in (-1..NumEndpoints) \ ValidIds :
    LET r == Removal(c) IN
    /\ r.ret = Thrown("Remove connection id invalid")
    /\ r.client = client
    /\ r.sessionId = sessionId
    /\ r.numConnections = numConnections

\* C13: on a pool whose lists and queue state have one slot per connection,
\* removeConnection(id) with a valid id removes position id from the client
\* list, the session list and the queue state and lowers the count by one.
C13_RemovesFromEveryArray ==
  (/\ ~IsNull(client) /\ Len(client) = numConnections
   /\ Len(sessionId) = numConnections
   /\ serverQueueTimes # NullTimes
   /\ Len(serverQueueTimes) = numConnections) =>
    \A c \in ValidIds :
      LET r == Removal(c) IN
      /\ r.ret.kind # "throw"
      /\ r.client = Splice(client, c)
      /\ r.sessionId = Splice(sessionId, c)
      /\ r.serverQueueTimes = Splice(serverQueueTimes, c)
      /\ Len(r.serverQueueTimes) = r.numConnections
      /\ r.numConnections = numConnections - 1

\* a list that holds no connection
NoConnection(l) == IsNull(l) \/ l = <<>>

\* every connect reply of mapd-con-es6.js has been delivered
Settled == \A h \in Endpoints : pendingConn[h] = 0

\* C14: a connect with well-formed parameters asks every endpoint; with k >= 1
\* endpoints reached the count (and the client list) is k once every attempt
\* has finished, and with none reached the instance holds no client and no
\* session and, in part_000, the call throws.
C14_ConnectCount ==
  /\ impl = "legacy" =>
       \A reach \in SUBSET Endpoints :
         LET r == ConnectLegacyEnd("ok", reach, FALSE) IN
         /\ r.rpcs = Endpoints
         /\ IF reach # {}
            THEN /\ r.numConnections = Cardinality(reach)
                 /\ Len(r.client) = Cardinality(reach)
            ELSE /\ r.ret.kind = "throw"
                 /\ NoConnection(r.client) /\ NoConnection(r.sessionId)
  /\ (impl = "es6" /\ reached # Unknown /\ Settled) =>
       IF reached # {}
       THEN /\ numConnections = Cardinality(reached)
            /\ ~IsNull(client) /\ Len(client) = Cardinality(reached)
       ELSE NoConnection(client) /\ NoConnection(sessionId)

\* the messages of connect about its parameters
ConfigErrors ==
  {"Please enter a username.",
   "Array connection parameters must be of equal length.",
   "Must have at least one server to connect to."}

\* how a connect call made now under cfg ends and which endpoints it asks,
\* in the copy the instance runs (no disconnect RPC failing)
ConnectEnds(cfg) ==
  IF impl = "legacy"
  THEN {[ret |-> r.ret, rpcs |-> r.rpcs] :
          r \in {ConnectLegacyEnd(cfg, reach, FALSE) : reach \in SUBSET Endpoints}}
  ELSE {[ret |-> ConnectEs6End(cfg).ret, rpcs |-> ConnectEs6End(cfg).rpcs]}

\* C15: under parameters of unequal or zero length, or with an empty field
\* at any endpoint, connect ends with a configuration error and sends no
\* connect RPC.
C15_BadConfigRejected ==
  \A cfg \in Configs \ {"ok"} : \A r \in ConnectEnds(cfg) :
    /\ r.rpcs = {}
    /\ r.ret.kind \in {"throw", "callback"}
    /\ r.ret.msg \in ConfigErrors

\* C16: no connect call ends by throwing, whatever its parameters and
\* whichever endpoints answer.
C16_ConnectNeverThrows ==
  \A cfg \in Configs : \A r \in ConnectEnds(cfg) : r.ret.kind # "throw"

\* C18: a connect that established at least one connection leaves the queue
\* state at one zero per connection.
C18_QueueZeroedOnConnect ==
  /\ impl = "legacy" =>
       \A reach \in (SUBSET Endpoints) \ {{}} : \A d \in Faults :
         LET r == ConnectLegacyEnd("ok", reach, d) IN
         r.ret.kind # "throw" =>
           r.serverQueueTimes = Zeros(r.numConnections)
  /\ (/\ impl = "es6" /\ reached \notin {Unknown, {}} /\ Settled
      /\ ~IsNull(client) /\ numConnections = Cardinality(reached)) =>
       serverQueueTimes = Zeros(numConnections)

\* C17: a disconnect of a connected instance, once finished, leaves client()
\* and sessionId() null, the connection count 0, and neither the queue state
\* nor the ping times carrying a value of a closed connection.
C17_DisconnectClears ==
  /\ (impl = "legacy" /\ ~IsNull(sessionId)) =>
       LET r == DisconnectLegacyEnd(FALSE) IN
       /\ IsNull(r.client) /\ IsNull(r.sessionId) /\ r.numConnections = 0
       /\ r.serverQueueTimes \in {NullTimes, <<>>}
  /\ (impl = "es6" /\ pendingDisc = 1) =>
       \A error \in BOOLEAN :
         LET r == DisconnectReplyEnd(error) IN
         /\ IsNull(r.client) /\ IsNull(r.sessionId) /\ r.numConnections = 0
         /\ r.serverQueueTimes \in {NullTimes, <<>>}
         /\ r.pingTimes \in {NullTimes, <<>>}

\* C19: when the last of the NUM_PINGS_PER_SERVER probes per connection of
\* a pingServers run on a connected instance returns, the run ends without
\* an exception and the queue state holds, for each connection, what it held
\* before plus that connection's average probe round-trip time.
C19_PingHandicapAdded ==
  (/\ impl = "es6" /\ ~IsNull(sessionId) /\ numConnections >= 1
   /\ ping.times # NullTimes /\ Len(ping.times) = numConnections
   /\ Outstanding(ping.pending, 1) = 1
   /\ ping.count + 1 = numConnections * NUM_PINGS_PER_SERVER) =>
    \A c \in 0..(NumEndpoints - 1) : \A d \in PingTimes :
      ping.pending[c + 1] = 1 =>
        LET r == PingReplyEnd(c, d)
            sums == AddAt(ping.times, c, d)
            before == IF serverQueueTimes = NullTimes
                      THEN Zeros(numConnections) ELSE serverQueueTimes
        IN /\ r.ret.kind # "throw"
           /\ r.serverQueueTimes # NullTimes
           /\ Len(r.serverQueueTimes) >= numConnections
           /\ \A k \in 1..numConnections :
                /\ k <= Len(before)
                /\ r.serverQueueTimes[k] =
                     before[k] + (sums[k] \div NUM_PINGS_PER_SERVER)

\* C20: the columnar block and the row-oriented block of one logical table
\* are normalised to the same canonical output, with and without
\* eliminateNullRows: same field list, same rows in the same order, same
\* keys, same values, same representation of null.
C20_SameCanonicalOutput ==
  norm.out # <<>> => norm.out[1] = norm.out[2]

\* the position whose value the key of field c holds in a canonical row:
\* c itself unless a later field has the same name
Holds(fields, c) ==
  \A c2 \in 1..Len(fields) :
    fields[c2].col_name = fields[c].col_name => c2 <= c

\* both results are in, every field of a known type, nothing thrown, one
\* output row per input row
Verbatim ==
  /\ norm.out # <<>>
  /\ \A c \in 1..Len(norm.input.fields) :
       norm.input.fields[c].col_type.type # UnmappedType
  /\ ~norm.input.eliminateNullRows
  /\ \A k \in 1..2 : /\ ~norm.out[k].thrown
                      /\ Len(norm.out[k].results) = Len(norm.input.table)

\* C21: in the output of either input format a null scalar field is the
\* value null and a null element of an array field is the string "NULL".
C21_NullRepresentation ==
  Verbatim =>
    \A k \in 1..2 : \A r \in 1..Len(norm.input.table) :
      \A c \in 1..Len(norm.input.fields) :
        LET d == norm.input.fields[c]
            cell == norm.input.table[r][c]
            v == norm.out[k].results[r][d.col_name]
        IN Holds(norm.input.fields, c) =>
             /\ (~d.col_type.is_array /\ cell.is_null) => v = JsNull
             /\ (d.col_type.is_array /\ ~cell.is_null) =>
                  /\ v.t = "Array"
                  /\ Len(v.e) = Len(cell.val.arr_val)
                  /\ \A e \in 1..Len(cell.val.arr_val) :
                       cell.val.arr_val[e].is_null => v.e[e] = JsString("NULL")

\* a row none of whose fields is null, as a scalar or in an array element
NullFree(row) ==
  \A c \in 1..Len(row) :
    /\ ~row[c].is_null
    /\ \A e \in 1..Len(row[c].val.arr_val) : ~row[c].val.arr_val[e].is_null

\* C22: with eliminateNullRows the output of either input format is that of
\* exactly the rows without a null field, in input order; without it the
\* output has one row per input row, in input order.
C22_EliminateNullRows ==
  norm.out # <<>> =>
    LET kept == IF norm.input.eliminateNullRows
                THEN SelectSeq(norm.input.table, NullFree)
                ELSE norm.input.table
    IN /\ norm.out[1] =
            FormattedResult(ColumnarBlock(norm.input.fields, kept), FALSE)
       /\ norm.out[2] =
            FormattedResult(RowBlock(norm.input.fields, kept), FALSE)

\* C23: in the output of either input format a non-null TIME, TIMESTAMP or
\* DATE value of s seconds is the integer s * 1000, as a scalar field and as
\* an array element.
C23_TemporalMilliseconds ==
  Verbatim =>
    \A k \in 1..2 : \A r \in 1..Len(norm.input.table) :
      \A c \in 1..Len(norm.input.fields) :
        LET d == norm.input.fields[c]
            cell == norm.input.table[r][c]
            v == norm.out[k].results[r][d.col_name]
        IN (/\ Holds(norm.input.fields, c)
            /\ DatumEnum(d.col_type.type) \in {"TIME", "TIMESTAMP", "DATE"}
            /\ ~cell.is_null) =>
             IF d.col_type.is_array
             THEN \A e \in 1..Len(cell.val.arr_val) :
                    ~cell.val.arr_val[e].is_null =>
                      v.e[e] = JsNumber(cell.val.arr_val[e].val.int_val * 1000)
             ELSE v = JsNumber(cell.val.int_val * 1000)

\* C24: normalising a block with at least one row and a field whose type
\* code is outside the enumeration fails with an error, in either format.
C24_UnmappedTypeFails ==
  (/\ norm.out # <<>>
   /\ Len(norm.input.table) >= 1
   /\ \E c \in 1..Len(norm.input.fields) :
        norm.input.fields[c].col_type.type = UnmappedType) =>
    \A k \in 1..2 : norm.out[k].thrown

\* C25: in each of the four modes of query (render or not, callback or
\* not) an attempt that selected a connection of the pool issues its RPC
\* under the attempt's nonce; when the transport accepts it, a synchronous
\* call returns the processed result and an asynchronous call returns the
\* nonce with the request on its way to the callback.
C25_FourModes ==
  \A a \in QueryArgs : \A r \in QueryResults(Fields, a) :
    LET at == r.st.log[1] IN
    (Len(r.st.log) >= 1 /\ HasClient(at.pool, at.conId)) =>
      /\ at.rpc
      /\ at.render = a.render
      /\ at.nonce = nonce
      /\ (Len(r.st.log) = 1 /\ at.res = "ok") =>
           IF a.async
           THEN /\ r.ret = Returned("nonce")
                /\ \E q \in r.st.inflight \ inflight :
                     q.nonce = at.nonce /\ q.conId = at.conId
           ELSE r.ret = Returned("result")

\* C26: every call of query that issued an RPC ends for its caller either
\* completed or fatal, and in one way only: a synchronous call returns the
\* processed result or throws; an asynchronous call returns the nonce of the
\* one request it left in flight, or throws, or hands an error to the
\* callback, leaving nothing in flight.
C26_CompletedOrFatal ==
  \A a \in QueryArgs : \A r \in QueryResults(Fields, a) :
    (Len(r.st.log) >= 1 /\ r.st.log[1].rpc) =>
      LET sent == r.st.inflight \ inflight IN
      IF a.async
      THEN \/ /\ r.ret = Returned("nonce")
              /\ Cardinality(sent) = 1
              /\ r.st.delivered = NoDelivery
           \/ /\ r.ret.kind = "throw"
              /\ sent = {}
              /\ r.st.delivered = NoDelivery
           \/ /\ r.ret.kind # "throw"
              /\ sent = {}
              /\ r.st.delivered.kind = "error"
      ELSE r.ret = Returned("result") \/ r.ret.kind = "throw"

\* C27: when the result processor throws on the result of a query, the
\* caller of that query gets an error (thrown at a synchronous caller,
\* handed to the callback of an asynchronous one); the pool stays as it was
\* and no queue slot but the query's own changes.
C27_NormalizerErrorPropagates ==
  /\ \A a \in QueryArgs : \A r \in QueryResults(Fields, a) :
       LET at == r.st.log[Len(r.st.log)] IN
       (Len(r.st.log) = 1 /\ at.res = "malformed") =>
         /\ r.ret.kind = "throw"
         /\ r.st.client = client /\ r.st.sessionId = sessionId
         /\ r.st.numConnections = numConnections
         /\ Len(r.st.serverQueueTimes) = Len(serverQueueTimes)
         /\ \A k \in 1..Len(serverQueueTimes) :
              k # at.conId + 1 => r.st.serverQueueTimes[k] = serverQueueTimes[k]
  /\ \A r \in inflight : \A o \in RepliesTo(r) \cap Malformed :
       LET c == Completed(Fields, r, o) IN
       /\ c.handed = "error"
       /\ c.st.client = client /\ c.st.sessionId = sessionId
       /\ c.st.numConnections = numConnections
       /\ Len(c.st.serverQueueTimes) = Len(serverQueueTimes)
       /\ \A k \in 1..Len(serverQueueTimes) :
            k # r.conId + 1 => c.st.serverQueueTimes[k] = serverQueueTimes[k]

\* C28: whichever of the requests in flight is answered next, its callback
\* is handed the result, it alone leaves the requests in flight, and the
\* estimate charged at its dispatch is taken off the queue slot of the
\* connection it was dispatched on, every other slot staying as it is.
C28_CompletionsInAnyOrder ==
  \A r \in inflight : \A o \in {p \in Replies : p.kind = "ok"} :
    LET c == Completed(Fields, r, o) IN
    /\ c.handed = "result"
    /\ c.st.inflight = inflight \ {r}
    /\ (serverQueueTimes # NullTimes /\ ~r.pixel) =>
         /\ r.conId + 1 \in 1..Len(serverQueueTimes)
         /\ Len(c.st.serverQueueTimes) = Len(serverQueueTimes)
         /\ \A k \in 1..Len(serverQueueTimes) :
              c.st.serverQueueTimes[k] =
                IF k = r.conId + 1 /\ serverQueueTimes[k] # NaNTime
                THEN serverQueueTimes[k] - r.est
                ELSE serverQueueTimes[k]

\* C29: numConnections() is never negative and equals the length of the
\* client list and of the session list (0 when there is none).
C29_CountIsPoolSize ==
  /\ numConnections >= 0
  /\ numConnections = (IF IsNull(client) THEN 0 ELSE Len(client))
  /\ numConnections = (IF IsNull(sessionId) THEN 0 ELSE Len(sessionId))

\* C30: whenever no request is in flight every queue slot is back at zero
\* (no pingServers having run): what dispatches charged has been relieved.
C30_ChargesRelieved ==
  (inflight = {} /\ serverQueueTimes # NullTimes
   /\ ping.times = NullTimes) =>
    \A k \in 1..Len(serverQueueTimes) : serverQueueTimes[k] = 0

\* C31: a call of query whose RPC fails with anything but a transport
\* error (a server-side exception, another error, a processor error) leaves
\* the client list, the session list and the connection count as they were.
C31_OnlyTransportErrorsRemove ==
  /\ \A a \in QueryArgs : \A r \in QueryResults(Fields, a) :
       (/\ Len(r.st.log) >= 1
        /\ r.st.log[1].rpc
        /\ r.st.log[1].res \in {"TMapDException", "Error", "malformed"}) =>
         /\ r.st.client = client
         /\ r.st.sessionId = sessionId
         /\ r.st.numConnections = numConnections
  /\ \A q \in inflight : \A o \in RepliesTo(q) :
       o.kind # "ok" =>
         LET c == Completed(Fields, q, o) IN
         /\ c.st.client = client
         /\ c.st.sessionId = sessionId
         /\ c.st.numConnections = numConnections

\* C32: the orientation flag query sends is options.columnarResults when
\* the caller supplies it (false included) and true otherwise; the
\* eliminateNullRows it hands to result processing is
\* options.eliminateNullRows when supplied and false otherwise.
C32_OptionsRead ==
  opts.out # <<>> =>
    LET o == opts.input IN
    /\ opts.out[1].columnarResults =
         (IF o.given /\ o.columnarResults # "absent"
          THEN o.columnarResults ELSE "true")
    /\ opts.out[1].eliminateNullRows =
         (IF o.given /\ o.eliminateNullRows # "absent"
          THEN o.eliminateNullRows ELSE "false")

\* the clients a pool holds
PoolSize(pool) == IF IsNull(pool) THEN 0 ELSE Len(pool)

\* C33 (bound): a call of query makes at most as many attempts that issue
\* an RPC as the pool held clients when it was called; every attempt but
\* the last failed with an error that removes the connection, and each
\* attempt after the first runs on a pool one client smaller.
C33_AttemptsBounded ==
  \A r \in QueryEnds :
    LET lg == r.st.log IN
    /\ Cardinality({i \in 1..Len(lg) : lg[i].rpc}) <= PoolSize(client)
    /\ \A i \in 1..(Len(lg) - 1) :
         /\ lg[i].rpc /\ Retryable(lg[i].res)
         /\ PoolSize(lg[i + 1].pool) = PoolSize(lg[i].pool) - 1

\* C33: with that, a call whose RPCs meet nothing but transport errors ends
\* with an attempt that got its result or with the exhausted-connections
\* error.
C33_RetryTerminates ==
  /\ C33_AttemptsBounded
  /\ \A r \in QueryEnds :
       LET lg == r.st.log IN
       (/\ Len(lg) >= 1 /\ lg[1].rpc
        /\ \A i \in 1..Len(lg) :
             lg[i].rpc => lg[i].res \in {"ok", "NetworkError"}) =>
         \/ lg[Len(lg)].rpc /\ lg[Len(lg)].res = "ok"
         \/ r.ret = NoRemainingError

\* C34: once every disconnect and connect reply of a connect made on a
\* connected instance has been delivered, the pool holds exactly the newly
\* established connections: the client and session lists are lists of
\* numConnections entries, one per endpoint whose connect RPC succeeded.
C34_ReconnectKeepsNewPool ==
  (reached \notin {Unknown, {}} /\ Settled /\ pendingDisc = 0) =>
    /\ ~IsNull(client) /\ ~IsNull(sessionId)
    /\ Len(client) = numConnections
    /\ Len(sessionId) = numConnections
    /\ {client[k] : k \in 1..Len(client)} = reached

\* the times the callback of a disconnect(callback) made now is invoked once
\* the transport has answered: once by the reply handler of each RPC
DisconnectCallbacks == DisconnectEs6End.rpcs

\* C35: a call of disconnect(callback) invokes its callback exactly once,
\* whatever the pool holds.
C35_DisconnectCallsBackOnce ==
  impl = "es6" => DisconnectCallbacks = 1

\* the connection state a connect call made now under cfg leaves when it ends
\* (no disconnect RPC failing), in the copy the instance runs
ConnectLeaves(cfg) ==
  IF impl = "legacy"
  THEN {[ret |-> r.ret, client |-> r.client, sessionId |-> r.sessionId,
         numConnections |-> r.numConnections] :
          r \in {ConnectLegacyEnd(cfg, reach, FALSE) : reach \in SUBSET Endpoints}}
  ELSE {[ret |-> ConnectEs6End(cfg).ret, client |-> ConnectEs6End(cfg).client,
         sessionId |-> ConnectEs6End(cfg).sessionId,
         numConnections |-> numConnections]}

\* C36: a connect call rejected with a configuration error leaves client and
\* sessionId null and the connection count 0.
C36_RejectedConnectLeavesNull ==
  \A cfg \in Configs : \A r \in ConnectLeaves(cfg) :
    r.ret.msg \in ConfigErrors =>
      /\ IsNull(r.client)
      /\ IsNull(r.sessionId)
      /\ r.numConnections = 0

\* C37: a pixel-row request is issued on the connection stored as the last
\* render connection, and while the pool is non-empty that stored id is an
\* index of the pool (0 <= id < numConnections), also after removeConnection.
C37_LastRenderConValid ==
  /\ \A async \in BOOLEAN : \A r \in PixelResults(Fields, async) :
       r.st.log[1].conId = lastRenderCon
  /\ (~IsNull(client) /\ Len(client) > 0 /\ numConnections > 0) =>
       (0 <= lastRenderCon /\ lastRenderCon < numConnections)

\* C38: every pingServers invocation on a connected instance ends in one
\* completed run (one callback, one handicap per connection), also when
\* invocations overlap: a run completes where pingCount reaches
\* numConnections * NUM_PINGS_PER_SERVER and is reset, so once every probe of
\* every invocation has returned no probe is left counted into a run that
\* never completed.
C38_PingRunsComplete ==
  (/\ impl = "es6" /\ ~IsNull(sessionId) /\ numConnections >= 1
   /\ ping.times # NullTimes /\ Len(ping.times) = numConnections
   /\ Outstanding(ping.pending, 1) = 0) =>
    ping.count = 0

\* C39: a dispatch sharing its query identifier with a request in flight
\* charges the estimate for that identifier again, and when two requests in
\* flight on one connection share a query identifier, the successful replies
\* to both take both charges off that connection's slot, whatever times they
\* report and although the first reply rewrites queryTimes[queryId].
C39_SharedIdDoubleCharge ==
  serverQueueTimes # NullTimes =>
    /\ \A q \in inflight : \A r \in QueryEnds :
         (/\ Len(r.st.log) = 1 /\ r.st.log[1].res = "ok" /\ r.st.log[1].async
          /\ r.st.log[1].queryId = q.queryId
          /\ IsArgMin(serverQueueTimes, r.st.log[1].conId)) =>
           LET at == r.st.log[1] IN
           /\ at.est = LastQueryTime(queryTimes, q.queryId)
           /\ r.st.serverQueueTimes[at.conId + 1]
                = serverQueueTimes[at.conId + 1] + at.est
    /\ \A q1 \in inflight : \A q2 \in inflight \ {q1} :
         (/\ ~q1.pixel /\ ~q2.pixel
          /\ q1.queryId = q2.queryId /\ q1.conId = q2.conId
          /\ q1.conId + 1 \in Numeric(serverQueueTimes)) =>
           \A e1 \in ExecTimes : \A e2 \in ExecTimes :
             LET c1 == Completed(Fields, q1, [kind |-> "ok", exec |-> e1])
                 c2 == Completed(c1.st, q2, [kind |-> "ok", exec |-> e2])
             IN c2.st.serverQueueTimes[q1.conId + 1]
                  = serverQueueTimes[q1.conId + 1] - q1.est - q2.est

====
